---- MODULE Spec2Model ----
(***************************************************************************)
(* Model of snyk_migrate_to_github_app/main.py: the SnykMigrationFacade    *)
(* (pagination, target index, GitHub organization parser, eligibility      *)
(* filter, result ledger) and the main() / run() flow around it.           *)
(*                                                                         *)
(* Python strings are sequences of one-character strings, so that          *)
(* startswith, replace, split, "in" and tuple unpacking are computed,      *)
(* not assumed.  The JSON null of an absent URL is the value None.         *)
(*                                                                         *)
(* Three specifications share the variables:                               *)
(*   Spec       one run of main() against a nondeterministic server        *)
(*   SpecPages  get_targets_by_origin, one GET per step                    *)
(*   SpecParse  parse_github_cloud_organization_from_target on its inputs  *)
(***************************************************************************)
EXTENDS Integers, Sequences, FiniteSets, TLC

VARIABLES
    pc,                   \* position in main() / in the function under check
    deploy,               \* main(deploy=...)
    github_organizations, \* main(github_organizations=...), the allowlist
    allowed_origins,      \* main: MIGRATABLE_ORIGINS or [origin]
    selector,             \* main: migrate_all_orgs / org_id / org_slug
    group_organizations,  \* self.group_organizations
    migratable_orgs,      \* main: the organizations to walk
    org_i,                \* main: index of the next organization to walk
    org_id,               \* main: org_id, rebound by the loop over organizations
    org_integrations,     \* main: result of get_org_integrations
    organized_cloud_targets, \* find_migratable_targets: name -> url, in insertion order
    github_targets,       \* find_migratable_targets: the candidates
    gh_i,                 \* find_migratable_targets: index of the next candidate
    org_migratable,       \* find_migratable_targets: its local migratable_targets
    migratable_targets,   \* main: migratable_targets
    mi,                   \* migrate_targets: index of the next target
    results,              \* self.results
    requests_log,         \* every HTTP request issued, in order
    exc,                  \* the exception propagating, or NoExc
    shown,                \* show_results has run
    exit_code,            \* process exit status, -1 while running
    served,               \* number of targets the server has handed out so far
    pages,                \* SpecPages: the server's page chain
    url,                  \* SpecPages: index of the page the next GET asks for
    targets,              \* SpecPages: get_targets_by_origin's targets
    p_target,             \* SpecParse: the target given to the parser
    p_result              \* SpecParse: what the parser returned

vars == <<pc, deploy, github_organizations, allowed_origins, selector,
          group_organizations, migratable_orgs, org_i, org_id, org_integrations,
          organized_cloud_targets, github_targets, gh_i, org_migratable,
          migratable_targets, mi, results, requests_log, exc, shown, exit_code,
          served, pages, url, targets, p_target, p_result>>

runVars == <<deploy, github_organizations, allowed_origins, selector,
             group_organizations, migratable_orgs, org_i, org_id, org_integrations,
             organized_cloud_targets, github_targets, gh_i, org_migratable,
             migratable_targets, mi, results, requests_log, exc, shown,
             exit_code, served>>

-----------------------------------------------------------------------------
(* Bounds of the model *)

MaxUrlParts == 5     \* SpecParse: a URL is at most this many chunks
MaxNameParts == 3    \* SpecParse: a display name is at most this many chunks
MaxPages == 3        \* SpecPages: pages the server holds
MaxPageItems == 2    \* SpecPages: items on one page
MaxTargets == 2      \* Spec: candidate targets the server hands out in a run
MaxCloudTargets == 2 \* Spec: github-cloud-app targets handed out in a run
MaxOrgs == 2         \* Spec: organizations of the group

-----------------------------------------------------------------------------
(* Python strings *)

None == <<"None">>

S_http == <<"h", "t", "t", "p">>
S_github == <<"h", "t", "t", "p", "s", ":", "/", "/", "g", "i", "t", "h", "u", "b", ".", "c", "o", "m">>
S_github_slash == S_github \o <<"/">>
S_gitlab == <<"h", "t", "t", "p", "s", ":", "/", "/", "g", "i", "t", "l", "a", "b", ".", "c", "o", "m">>
S_acme == <<"a", "c", "m", "e">>
S_widget == <<"w", "i", "d", "g", "e", "t">>
S_slash == <<"/">>
S_empty == << >>

\* s.startswith(p)
StartsWith(s, p) ==
    /\ Len(s) >= Len(p)
    /\ SubSeq(s, 1, Len(p)) = p

\* s[k:] for a 1-based k
Tail_from(s, k) == SubSeq(s, k, Len(s))

\* s.replace(old, ""): every non-overlapping occurrence, left to right
RECURSIVE Replace(_, _)
Replace(s, old) ==
    IF s = << >> THEN << >>
    ELSE IF StartsWith(s, old) THEN Replace(Tail_from(s, Len(old) + 1), old)
    ELSE <<Head(s)>> \o Replace(Tail(s), old)

\* s.removeprefix(p): the literal prefix, once
RemovePrefix(s, p) == IF StartsWith(s, p) THEN Tail_from(s, Len(p) + 1) ELSE s

\* s.split("/")[0]
RECURSIVE SplitFirst(_)
SplitFirst(s) ==
    IF s = << >> \/ Head(s) = "/" THEN << >>
    ELSE <<Head(s)>> \o SplitFirst(Tail(s))

\* "/" in s
HasSlash(s) == \E k \in 1..Len(s) : s[k] = "/"

\* truthiness of an optional string
Truthy(u) == u # None /\ u # << >>

\* the concatenation of a sequence of sequences
RECURSIVE Concat(_)
Concat(ss) == IF ss = << >> THEN << >> ELSE Head(ss) \o Concat(Tail(ss))

\* all sequences over S of length lo..hi
SeqsOf(S, lo, hi) == UNION {[1..n -> S] : n \in lo..hi}

-----------------------------------------------------------------------------
(* GitHub organization parser *)

\* the parser as written: str.replace removes every occurrence of the prefix
ParseOrg(u, display_name) ==
    IF Truthy(u) /\ StartsWith(u, S_http)
    THEN IF ~StartsWith(u, S_github)
         THEN S_empty
         ELSE SplitFirst(Replace(u, S_github_slash))
    ELSE IF ~HasSlash(display_name)
         THEN S_empty
         ELSE SplitFirst(display_name)

parse_github_cloud_organization_from_target(target) ==
    ParseOrg(target.url, target.display_name)

-----------------------------------------------------------------------------
(* Specification SpecParse: the parser applied to every bounded target *)

UrlChunks == {S_github, S_gitlab, S_slash, S_acme}
NameChunks == {S_acme, S_slash, S_widget}

ParseUrls == {None} \cup {Concat(c) : c \in SeqsOf(UrlChunks, 0, MaxUrlParts)}
ParseNames == {Concat(c) : c \in SeqsOf(NameChunks, 1, MaxNameParts)}

IdleRun ==
    /\ deploy = FALSE
    /\ github_organizations = {}
    /\ allowed_origins = << >>
    /\ selector = [kind |-> "all", value |-> 0]
    /\ group_organizations = << >>
    /\ migratable_orgs = << >>
    /\ org_i = 1
    /\ org_id = 0
    /\ org_integrations = << >>
    /\ organized_cloud_targets = << >>
    /\ github_targets = << >>
    /\ gh_i = 1
    /\ org_migratable = << >>
    /\ migratable_targets = << >>
    /\ mi = 1
    /\ results = [migrated |-> << >>, failed |-> << >>, ignored |-> << >>]
    /\ exc = "none"
    /\ shown = FALSE
    /\ exit_code = -1
    /\ served = [targets |-> 0, cloud |-> 0]

IdlePages ==
    /\ pages = << >>
    /\ url = 1
    /\ targets = << >>

IdleParse ==
    /\ p_target = [url |-> None, display_name |-> S_empty]
    /\ p_result = None

InitParse ==
    /\ pc = "parse"
    /\ p_target \in [url : ParseUrls, display_name : ParseNames]
    /\ p_result = None
    /\ IdleRun
    /\ IdlePages
    /\ requests_log = << >>

ParseTarget ==
    /\ pc = "parse"
    /\ p_result' = parse_github_cloud_organization_from_target(p_target)
    /\ pc' = "parsed"
    /\ UNCHANGED <<p_target, runVars, pages, url, targets>>

NextParse == ParseTarget

SpecParse == InitParse /\ [][NextParse]_vars

\* "begins with an HTTP scheme"
HasHttpScheme(u) ==
    \/ StartsWith(u, S_http \o <<":", "/", "/">>)
    \/ StartsWith(u, S_http \o <<"s", ":", "/", "/">>)

\* the reference parser of the specification, where it is defined
ReferenceDefined(t) == t.url = None \/ HasHttpScheme(t.url)

ReferenceParse(t) ==
    IF t.url # None
    THEN IF ~StartsWith(t.url, S_github)
         THEN S_empty
         ELSE SplitFirst(RemovePrefix(t.url, S_github_slash))
    ELSE IF HasSlash(t.display_name)
         THEN SplitFirst(t.display_name)
         ELSE S_empty

\* C10: the parser returns, for every target with an HTTP-scheme URL or no URL,
\* what the reference parser returns: "" for a URL outside https://github.com,
\* else the first "/"-segment after the literal prefix https://github.com/; with
\* no URL the first "/"-segment of a display name holding "/", else "".
C10_ParserEqualsReference ==
    (pc = "parsed" /\ ReferenceDefined(p_target))
        => p_result = ReferenceParse(p_target)

-----------------------------------------------------------------------------
(* Pagination client: get_targets_by_origin *)

\* links.next of a page: the key is absent, is "", or is the path of the next page
NextKinds == {"absent", "empty", "path"}

\* targets.extend(response_json.get("data", []))
ExtendTargets_assign(acc, response_json) == response_json.data

ExtendTargets(acc, response_json) == acc \o response_json.data

\* "next" not in links or links["next"] == ""
LoopBreaks(response_json) == response_json.next \in {"absent", "empty"}

\* the whole loop, from page k on, against a chain of pages that all answer 200
RECURSIVE FetchFrom(_, _, _)
FetchFrom(chain, k, acc) ==
    IF LoopBreaks(chain[k])
    THEN ExtendTargets(acc, chain[k])
    ELSE FetchFrom(chain, k + 1, ExtendTargets(acc, chain[k]))

get_targets_by_origin(chain) == FetchFrom(chain, 1, << >>)

-----------------------------------------------------------------------------
(* Specification SpecPages: get_targets_by_origin, one GET per step *)

\* number of items on the pages before page k
RECURSIVE ItemsBefore(_, _)
ItemsBefore(sizes, k) == IF k = 1 THEN 0 ELSE ItemsBefore(sizes, k - 1) + sizes[k - 1]

\* the server lists the items 1, 2, 3, ... cut into pages of the given sizes
PagesOf(sizes, nexts) ==
    [k \in DOMAIN sizes |->
        [data |-> [j \in 1..sizes[k] |-> ItemsBefore(sizes, k) + j],
         next |-> nexts[k]]]

\* a finite chain: the last page the server holds names no next page
PageChains ==
    UNION {{PagesOf(sizes, nexts) :
                sizes \in [1..n -> 0..MaxPageItems],
                nexts \in {f \in [1..n -> NextKinds] : f[n] # "path"}} :
           n \in 1..MaxPages}

InitPages ==
    /\ pc = "get"
    /\ pages \in PageChains
    /\ url = 1
    /\ targets = << >>
    /\ requests_log = << >>
    /\ IdleRun
    /\ IdleParse

pageRest == <<deploy, github_organizations, allowed_origins, selector,
              group_organizations, migratable_orgs, org_i, org_id, org_integrations,
              organized_cloud_targets, github_targets, gh_i, org_migratable,
              migratable_targets, mi, results, shown, exit_code, served,
              p_target, p_result>>

\* one pass of the while loop whose GET is answered with a success status
GetPage ==
    /\ pc = "get"
    /\ requests_log' = Append(requests_log, [method |-> "GET", page |-> url])
    /\ targets' = ExtendTargets(targets, pages[url])
    /\ IF LoopBreaks(pages[url])
       THEN pc' = "returned" /\ url' = url
       ELSE pc' = "get" /\ url' = url + 1
    /\ UNCHANGED <<pages, exc, pageRest>>

\* one pass whose GET is answered with an error status: raise_for_status raises
GetPageFails ==
    /\ pc = "get"
    /\ requests_log' = Append(requests_log, [method |-> "GET", page |-> url])
    /\ exc' = "HTTPError"
    /\ pc' = "raised"
    /\ UNCHANGED <<pages, url, targets, pageRest>>

NextPages == GetPage \/ GetPageFails

SpecPages == InitPages /\ [][NextPages]_vars

\* the chain the server serves from its first page: up to the first page whose
\* links.next is absent or empty
RECURSIVE ChainLenFrom(_, _)
ChainLenFrom(chain, k) ==
    IF chain[k].next # "path" THEN k ELSE ChainLenFrom(chain, k + 1)

ChainLen == ChainLenFrom(pages, 1)

ChainData == Concat([k \in 1..ChainLen |-> pages[k].data])

\* C9: get_targets_by_origin returns the concatenation of the data of every page
\* of the chain in page order, has issued one GET per page of the chain when it
\* returns, and never issues a GET past the first page without a next link.
C9_PaginationConcatenates ==
    /\ Len(requests_log) <= ChainLen
    /\ \A k \in 1..Len(requests_log) : requests_log[k] = [method |-> "GET", page |-> k]
    /\ pc = "returned" =>
        /\ targets = ChainData
        /\ targets = [j \in 1..Len(targets) |-> j]
        /\ Len(requests_log) = ChainLen
        /\ targets = get_targets_by_origin(pages)

\* a three-page chain with items on every page has been fetched to its end,
\* the server holding nothing behind it
C9_Witness ==
    /\ pc = "returned"
    /\ ChainLen = 3
    /\ \A k \in 1..3 : Len(pages[k].data) >= 1
    /\ pages[3].next = "empty"

-----------------------------------------------------------------------------
(* Constants of main.py and the data the server can hold *)

MIGRATABLE_ORIGINS == <<"github", "github-enterprise">>
CLOUD_APP == "github-cloud-app"

HTTP_OK == 200
HTTP_CONFLICT == 409
HTTP_SERVER_ERROR == 500

S_ab == <<"a", "b">>
S_b == <<"b">>
S_acme_w == S_acme \o <<"/", "w">>
S_github_acme_w == S_github_slash \o S_acme_w

\* display names and URLs of the targets the server can hold: a two-character
\* name and an "org/repo" name; no URL, a one-character URL and a github.com URL
TargetNames == {S_ab, S_acme_w}
TargetUrls == {None, S_b, S_github_acme_w}

\* URLs of the github-cloud-app targets the server can hold
CloudUrls == {S_github_acme_w}

\* attributes of a target as the server lists it
TargetShapes == [url : TargetUrls, display_name : TargetNames, is_private : BOOLEAN]

\* the integrations of an organization, in the order the server lists the keys
IntegrationMaps ==
    {<<"github">>,
     <<CLOUD_APP, "github-enterprise", "github">>}

\* x in seq
InSeq(x, seq) == \E k \in 1..Len(seq) : seq[k] = x

\* dict[k] = v on a dict held as a function
Put(d, k, v) == [x \in (DOMAIN d) \cup {k} |-> IF x = k THEN v ELSE d[x]]

EmptyDict == << >>

-----------------------------------------------------------------------------
(* Target organizer: organize_targets_by_name_and_url *)

\* organized_targets[t_name] = t_url on a dict held as its items in insertion
\* order: a key already present keeps its place and takes the new value
DictSet(items, name, u) ==
    IF \E k \in 1..Len(items) : items[k].name = name
    THEN [k \in 1..Len(items) |->
            IF items[k].name = name THEN [name |-> name, url |-> u] ELSE items[k]]
    ELSE Append(items, [name |-> name, url |-> u])

RECURSIVE OrganizeFrom(_, _)
OrganizeFrom(ts, items) ==
    IF ts = << >> THEN items
    ELSE OrganizeFrom(Tail(ts), DictSet(items, Head(ts).display_name, Head(ts).url))

organize_targets_by_name_and_url(ts) == OrganizeFrom(ts, << >>)

\* display_name in organized_cloud_targets
HasKey(items, name) == \E k \in 1..Len(items) : items[k].name = name

-----------------------------------------------------------------------------
(* Eligibility filter: one pass of the loop over github_targets *)

REASON_PUBLIC == "public target"
REASON_CONFLICT == "conflicting github-cloud-app target"
REASON_NOT_IN_ORGS == "not in specified github organizations"
REASON_ALREADY == "already migrated"
REASON_OK == "OK"
REASON_DRY_RUN == "dry-run"
NoReason == "no write"

\* for _, t_url in organized_cloud_targets: the loop walks the KEYS of the dict and
\* unpacks each key, a string, into two names. A key that is not two characters
\* long raises ValueError; of a two-character key t_url is the second character.
\* The continue of a match continues this inner loop. Result: whether the loop
\* raised, and whether a match wrote the ignored entry before that.
RECURSIVE UrlLoop(_, _, _, _)
UrlLoop(items, k, u, hit) ==
    IF k > Len(items) THEN [raised |-> FALSE, hit |-> hit]
    ELSE IF Len(items[k].name) # 2 THEN [raised |-> TRUE, hit |-> hit]
    ELSE UrlLoop(items, k + 1, u, hit \/ u = <<items[k].name[2]>>)

\* if github_organizations and gh_org not in github_organizations
OutsideAllowlist_ignore_empty(allow, gh_org) == gh_org \notin allow

OutsideAllowlist(allow, gh_org) == allow # {} /\ gh_org \notin allow

\* if not is_private
IsPublic_never(gh_t) == FALSE

IsPublic(gh_t) == ~gh_t.is_private

\* What one pass does with candidate gh_t: the reason last written under its id
\* in results["ignored"] (NoReason: nothing written), whether it was appended to
\* migratable_targets, and whether the pass raised ValueError.
Classify(gh_t, items, allow) ==
    LET gh_org == parse_github_cloud_organization_from_target(gh_t)
        loop == UrlLoop(items, 1, gh_t.url, FALSE)
        conflict == IF loop.hit THEN REASON_CONFLICT ELSE NoReason
    IN  IF IsPublic(gh_t)
        THEN [reason |-> REASON_PUBLIC, appended |-> FALSE, raised |-> FALSE]
        ELSE IF HasKey(items, gh_t.display_name)
        THEN [reason |-> REASON_CONFLICT, appended |-> FALSE, raised |-> FALSE]
        ELSE IF loop.raised
        THEN [reason |-> conflict, appended |-> FALSE, raised |-> TRUE]
        ELSE IF OutsideAllowlist(allow, gh_org)
        THEN [reason |-> REASON_NOT_IN_ORGS, appended |-> FALSE, raised |-> FALSE]
        ELSE [reason |-> conflict, appended |-> TRUE, raised |-> FALSE]

-----------------------------------------------------------------------------
(* Specification Spec: one run of main() *)

\* what the command line can select
Allowlists == {{}, {S_acme}}
OriginChoices == {<<"github">>, MIGRATABLE_ORIGINS}
Selectors ==
    {[kind |-> "all", value |-> 0], [kind |-> "id", value |-> 1],
     [kind |-> "slug", value |-> MaxOrgs]}

\* exceptions of the requests library a call can end in
GetFailures == {"ConnectionError", "ReadTimeout", "HTTPError"}
PatchFailures == {"ConnectionError", "ReadTimeout"}
PatchStatuses == {HTTP_OK, HTTP_CONFLICT, HTTP_SERVER_ERROR}

\* except requests.HTTPError (migrate_targets)
CaughtByMigrate == {"HTTPError"}

\* except (requests.ConnectionError, requests.HTTPError) (main)
CaughtByMain == {"ConnectionError", "HTTPError"}

\* except ValueError (run)
CaughtByRun == {"ValueError"}

Init ==
    /\ pc = "get_orgs"
    /\ deploy \in BOOLEAN
    /\ github_organizations \in Allowlists
    /\ allowed_origins \in OriginChoices
    /\ selector \in Selectors
    /\ group_organizations = << >>
    /\ migratable_orgs = << >>
    /\ org_i = 1
    /\ org_id = 0
    /\ org_integrations = << >>
    /\ organized_cloud_targets = << >>
    /\ github_targets = << >>
    /\ gh_i = 1
    /\ org_migratable = << >>
    /\ migratable_targets = << >>
    /\ mi = 1
    /\ results = [migrated |-> EmptyDict, failed |-> EmptyDict, ignored |-> EmptyDict]
    /\ requests_log = << >>
    /\ exc = "none"
    /\ shown = FALSE
    /\ exit_code = -1
    /\ served = [targets |-> 0, cloud |-> 0]
    /\ IdlePages
    /\ IdleParse

idleVars == <<pages, url, targets, p_target, p_result>>
inputVars == <<deploy, github_organizations, allowed_origins, selector>>
findVars == <<organized_cloud_targets, github_targets, gh_i, org_migratable>>

Get(what, o, origin) == [method |-> "GET", what |-> what, org |-> o, origin |-> origin]
\* a PATCH, with what came back: a status (error ""), or the exception of the
\* transport (status 0)
Patch(o, id, status, error) ==
    [method |-> "PATCH", org |-> o, target |-> id, status |-> status, error |-> error]

\* raise e out of the call in progress
Raise(e) == exc' = e /\ pc' = "raised"

\* get_all_group_organizations: the GET answers 200 with a non-empty list
GetAllGroupOrganizations ==
    /\ pc = "get_orgs"
    /\ \E n \in 1..MaxOrgs :
        group_organizations' = [k \in 1..n |-> [id |-> k, slug |-> k]]
    /\ requests_log' = Append(requests_log, Get("orgs", 0, ""))
    /\ pc' = "select"
    /\ UNCHANGED <<inputVars, migratable_orgs, org_i, org_id, org_integrations, findVars,
                   migratable_targets, mi, results, exc, shown, exit_code, served,
                   idleVars>>

\* get_all_group_organizations: the connection fails or times out, or the answer
\* is not 200 or lists no organization (ValueError)
GetAllGroupOrganizationsFails ==
    /\ pc = "get_orgs"
    /\ \E e \in {"ConnectionError", "ReadTimeout", "ValueError"} : Raise(e)
    /\ requests_log' = Append(requests_log, Get("orgs", 0, ""))
    /\ UNCHANGED <<inputVars, group_organizations, migratable_orgs, org_i, org_id,
                   org_integrations, findVars, migratable_targets, mi, results,
                   shown, exit_code, served, idleVars>>

\* get_org_by_id / get_org_by_slug: the organizations that match, in group order
OrgsBy(kind, value) ==
    SelectSeq(group_organizations,
              LAMBDA o : IF kind = "id" THEN o.id = value ELSE o.slug = value)

\* get_migratable_orgs
GetMigratableOrgs ==
    /\ pc = "select"
    /\ IF selector.kind = "all"
       THEN /\ migratable_orgs' = group_organizations
            /\ pc' = "org_loop"
            /\ exc' = exc
       ELSE IF OrgsBy(selector.kind, selector.value) # << >>
       THEN /\ migratable_orgs' = <<Head(OrgsBy(selector.kind, selector.value))>>
            /\ pc' = "org_loop"
            /\ exc' = exc
       ELSE /\ migratable_orgs' = migratable_orgs
            /\ Raise("ValueError")
    /\ UNCHANGED <<inputVars, group_organizations, org_i, org_id, org_integrations,
                   findVars, migratable_targets, mi, results, requests_log, shown,
                   exit_code, served, idleVars>>

\* main, for org in migratable_orgs: org_id = org["id"]; get_org_integrations
\* answers 200 with the integrations of the organization
GetOrgIntegrations ==
    /\ pc = "org_loop"
    /\ org_i <= Len(migratable_orgs)
    /\ org_id' = migratable_orgs[org_i].id
    /\ org_integrations' \in IntegrationMaps
    /\ requests_log' = Append(requests_log, Get("integrations", org_id', ""))
    /\ pc' = "find"
    /\ UNCHANGED <<inputVars, group_organizations, migratable_orgs, org_i, findVars,
                   migratable_targets, mi, results, exc, shown, exit_code, served,
                   idleVars>>

\* get_org_integrations: connection failure, timeout, or a status other than 200
GetOrgIntegrationsFails ==
    /\ pc = "org_loop"
    /\ org_i <= Len(migratable_orgs)
    /\ org_id' = migratable_orgs[org_i].id
    /\ requests_log' = Append(requests_log, Get("integrations", org_id', ""))
    /\ \E e \in {"ConnectionError", "ReadTimeout", "ValueError"} : Raise(e)
    /\ UNCHANGED <<inputVars, group_organizations, migratable_orgs, org_i,
                   org_integrations, findVars, migratable_targets, mi, results,
                   shown, exit_code, served, idleVars>>

\* the server's answer to a targets query that fits one page
ServerPages(list) == <<[data |-> list, next |-> "absent"]>>

\* github-cloud-app targets the server may still hand out
CloudLists == SeqsOf([url : CloudUrls, display_name : TargetNames],
                     0, MaxCloudTargets - served.cloud)

\* candidate targets the server may still hand out for one origin
ShapeLists == SeqsOf(TargetShapes, 0, MaxTargets - served.targets)

\* the targets of one origin of organization o: the server gives each target an
\* id of its own
Numbered(shapes, o, base) ==
    [j \in 1..Len(shapes) |->
        [id |-> base + j, org |-> o, url |-> shapes[j].url,
         display_name |-> shapes[j].display_name,
         is_private |-> shapes[j].is_private]]

\* for i_origin in org_integrations: if i_origin not in allowed_origins: continue
FetchedOrigins(integrations, allowed) ==
    SelectSeq(integrations, LAMBDA i_origin : InSeq(i_origin, allowed))

\* github_targets.extend(get_targets_by_origin(org_id, i_origin)), origin k onwards
RECURSIVE ExtendFrom(_, _, _, _, _)
ExtendFrom(origins, answers, o, k, acc) ==
    IF k > Len(origins) THEN acc
    ELSE ExtendFrom(origins, answers, o, k + 1,
            acc \o get_targets_by_origin(
                ServerPages(Numbered(answers[k], o, served.targets + Len(acc)))))

\* find_migratable_targets: github-cloud-app is not among the integrations
FindNoCloudApp ==
    /\ pc = "find"
    /\ ~InSeq(CLOUD_APP, org_integrations)
    /\ Raise("ValueError")
    /\ UNCHANGED <<inputVars, group_organizations, migratable_orgs, org_i, org_id,
                   org_integrations, findVars, migratable_targets, mi, results,
                   requests_log, shown, exit_code, served, idleVars>>

\* find_migratable_targets: the github-cloud-app targets are fetched and indexed
FetchCloudTargets ==
    /\ pc = "find"
    /\ InSeq(CLOUD_APP, org_integrations)
    /\ \E list \in CloudLists :
        /\ organized_cloud_targets' =
              organize_targets_by_name_and_url(get_targets_by_origin(ServerPages(list)))
        /\ served' = [served EXCEPT !.cloud = @ + Len(list)]
    /\ requests_log' = Append(requests_log, Get("targets", org_id, CLOUD_APP))
    /\ pc' = "find_origins"
    /\ UNCHANGED <<inputVars, group_organizations, migratable_orgs, org_i, org_id,
                   org_integrations, github_targets, gh_i, org_migratable,
                   migratable_targets, mi, results, exc, shown, exit_code, idleVars>>

\* find_migratable_targets: the fetch of the github-cloud-app targets raises
FetchCloudTargetsFails ==
    /\ pc = "find"
    /\ InSeq(CLOUD_APP, org_integrations)
    /\ \E e \in GetFailures : Raise(e)
    /\ requests_log' = Append(requests_log, Get("targets", org_id, CLOUD_APP))
    /\ UNCHANGED <<inputVars, group_organizations, migratable_orgs, org_i, org_id,
                   org_integrations, findVars, migratable_targets, mi, results,
                   shown, exit_code, served, idleVars>>

\* the GETs of the first n origins
OriginGets(origins, n) == [k \in 1..n |-> Get("targets", org_id, origins[k])]

\* find_migratable_targets: the candidates of every allowed origin are fetched
FetchGithubTargets ==
    /\ pc = "find_origins"
    /\ LET origins == FetchedOrigins(org_integrations, allowed_origins)
       IN  /\ \E answers \in [1..Len(origins) -> ShapeLists] :
                LET fetched == ExtendFrom(origins, answers, org_id, 1, << >>)
                IN  /\ Len(fetched) <= MaxTargets - served.targets
                    /\ github_targets' = fetched
                    /\ served' = [served EXCEPT !.targets = @ + Len(fetched)]
           /\ requests_log' = requests_log \o OriginGets(origins, Len(origins))
    /\ gh_i' = 1
    /\ org_migratable' = << >>
    /\ pc' = "classify"
    /\ UNCHANGED <<inputVars, group_organizations, migratable_orgs, org_i, org_id,
                   org_integrations, organized_cloud_targets, migratable_targets, mi,
                   results, exc, shown, exit_code, idleVars>>

\* find_migratable_targets: the fetch of the n-th allowed origin raises
FetchGithubTargetsFails ==
    /\ pc = "find_origins"
    /\ LET origins == FetchedOrigins(org_integrations, allowed_origins)
       IN  \E n \in 1..Len(origins) :
                requests_log' = requests_log \o OriginGets(origins, n)
    /\ \E e \in GetFailures : Raise(e)
    /\ organized_cloud_targets' = << >>
    /\ UNCHANGED <<inputVars, group_organizations, migratable_orgs, org_i, org_id,
                   org_integrations, github_targets, gh_i, org_migratable, migratable_targets, mi, results,
                   shown, exit_code, served, idleVars>>

\* find_migratable_targets: one pass of the loop over github_targets
ClassifyTarget ==
    /\ pc = "classify"
    /\ gh_i <= Len(github_targets)
    /\ LET gh_t == github_targets[gh_i]
           out == Classify(gh_t, organized_cloud_targets, github_organizations)
       IN  /\ results' =
                IF out.reason = NoReason THEN results
                ELSE [results EXCEPT !.ignored =
                        Put(@, gh_t.id, [target |-> gh_t, reason |-> out.reason])]
           /\ org_migratable' =
                IF out.appended THEN Append(org_migratable, gh_t) ELSE org_migratable
           /\ IF out.raised
              THEN Raise("ValueError") /\ gh_i' = gh_i
              ELSE gh_i' = gh_i + 1 /\ pc' = pc /\ exc' = exc
    /\ UNCHANGED <<inputVars, group_organizations, migratable_orgs, org_i, org_id,
                   org_integrations, organized_cloud_targets, github_targets,
                   migratable_targets, mi, requests_log, shown, exit_code, served,
                   idleVars>>

\* find_migratable_targets returns; main extends migratable_targets with the
\* result and goes on to the next organization (org_integrations is bound anew
\* before it is read again)
FindReturn ==
    /\ pc = "classify"
    /\ gh_i > Len(github_targets)
    /\ migratable_targets' = migratable_targets \o org_migratable
    /\ organized_cloud_targets' = << >>
    /\ github_targets' = << >>
    /\ gh_i' = 1
    /\ org_migratable' = << >>
    /\ org_i' = org_i + 1
    /\ pc' = "org_loop"
    /\ org_integrations' = << >>
    /\ UNCHANGED <<inputVars, group_organizations, migratable_orgs, org_id,
                   mi, results, requests_log, exc, shown,
                   exit_code, served, idleVars>>

\* if deploy is True: migrate_targets, else: dry_run_targets
ModeOf_always_migrate(d) == "migrate"

ModeOf(d) == IF d THEN "migrate" ELSE "dry_run"

\* for org in migratable_orgs: the iteration is exhausted
OrgLoopOver_after_first == org_i > 1

OrgLoopOver == org_i > Len(migratable_orgs)

\* main: the loop over the organizations is over; deploy picks the mode
LeaveOrgLoop ==
    /\ pc = "org_loop"
    /\ OrgLoopOver
    /\ pc' = ModeOf(deploy)
    /\ mi' = 1
    /\ UNCHANGED <<inputVars, group_organizations, migratable_orgs, org_i, org_id,
                   org_integrations, findVars, migratable_targets, results,
                   requests_log, exc, shown, exit_code, served, idleVars>>

\* migrate_targets: the bucket a response status selects, and the reason stored
BucketOf_ok_only(status) == "migrated"

BucketOf(status) ==
    IF status = HTTP_OK THEN "migrated"
    ELSE IF status = HTTP_CONFLICT THEN "ignored"
    ELSE "failed"

ReasonOf(status) ==
    IF status = HTTP_OK THEN REASON_OK
    ELSE IF status = HTTP_CONFLICT THEN REASON_ALREADY
    ELSE [status_code |-> status]

\* self.results[bucket][t_id] = {"target": target, "reason": reason}
Record(res, bucket, target, reason) ==
    [res EXCEPT ![bucket] = Put(@, target.id, [target |-> target, reason |-> reason])]

\* migrate_targets: one pass of the loop whose PATCH is answered
MigrateTarget ==
    /\ pc = "migrate"
    /\ mi <= Len(migratable_targets)
    /\ LET target == migratable_targets[mi]
       IN  \E status \in PatchStatuses :
                /\ requests_log' = Append(requests_log, Patch(org_id, target.id, status, ""))
                /\ results' = Record(results, BucketOf(status), target, ReasonOf(status))
    /\ mi' = mi + 1
    /\ UNCHANGED <<pc, inputVars, group_organizations, migratable_orgs, org_i, org_id,
                   org_integrations, findVars, migratable_targets, exc, shown,
                   exit_code, served, idleVars>>

\* migrate_targets: one pass of the loop whose PATCH raises in the transport;
\* the except clause decides whether the loop goes on
MigrateTargetRaises ==
    /\ pc = "migrate"
    /\ mi <= Len(migratable_targets)
    /\ LET target == migratable_targets[mi]
       IN  \E e \in PatchFailures :
                /\ requests_log' = Append(requests_log, Patch(org_id, target.id, 0, e))
                /\ IF e \in CaughtByMigrate
                   THEN /\ results' = Record(results, "failed", target, [exception |-> e])
                        /\ mi' = mi + 1
                        /\ UNCHANGED <<pc, exc>>
                   ELSE /\ Raise(e)
                        /\ UNCHANGED <<results, mi>>
    /\ UNCHANGED <<inputVars, group_organizations, migratable_orgs, org_i, org_id,
                   org_integrations, findVars, migratable_targets, shown,
                   exit_code, served, idleVars>>

\* migrate_targets returns, and main with it
MigrateReturn ==
    /\ pc = "migrate"
    /\ mi > Len(migratable_targets)
    /\ pc' = "main_done"
    /\ UNCHANGED <<inputVars, group_organizations, migratable_orgs, org_i, org_id,
                   org_integrations, findVars, migratable_targets, mi, results,
                   requests_log, exc, shown, exit_code, served, idleVars>>

\* dry_run_targets: the loop over the targets
RECURSIVE DryRunFrom(_, _)
DryRunFrom(ts, res) ==
    IF ts = << >> THEN res
    ELSE DryRunFrom(Tail(ts), Record(res, "migrated", Head(ts), REASON_DRY_RUN))

\* dry_run_targets, show_results included; main returns
DryRunTargets ==
    /\ pc = "dry_run"
    /\ results' = DryRunFrom(migratable_targets, results)
    /\ shown' = TRUE
    /\ pc' = "main_done"
    /\ UNCHANGED <<inputVars, group_organizations, migratable_orgs, org_i, org_id,
                   org_integrations, findVars, migratable_targets, mi, requests_log,
                   exc, exit_code, served, idleVars>>

\* main's except clauses: ValueError is logged and raised again; ConnectionError
\* and HTTPError become ValueError; anything else passes through. The locals of
\* the calls the exception left are gone.
MainExcept ==
    /\ pc = "raised"
    /\ exc' = IF exc \in CaughtByMain THEN "ValueError" ELSE exc
    /\ pc' = "main_raised"
    /\ organized_cloud_targets' = << >>
    /\ github_targets' = << >>
    /\ gh_i' = 1
    /\ org_migratable' = << >>
    /\ org_integrations' = << >>
    /\ UNCHANGED <<inputVars, group_organizations, migratable_orgs, org_i, org_id,
                   migratable_targets, mi, results, requests_log, shown,
                   exit_code, served, idleVars>>

\* run() and __main__: run() logs a ValueError and returns, so the process ends
\* with status 0; any other exception ends it with status 1
RunExit ==
    /\ pc \in {"main_done", "main_raised"}
    /\ exit_code' = IF exc = "none" \/ exc \in CaughtByRun THEN 0 ELSE 1
    /\ pc' = "exited"
    /\ UNCHANGED <<inputVars, group_organizations, migratable_orgs, org_i, org_id,
                   org_integrations, findVars, migratable_targets, mi, results,
                   requests_log, exc, shown, served, idleVars>>

Next ==
    \/ GetAllGroupOrganizations
    \/ GetAllGroupOrganizationsFails
    \/ GetMigratableOrgs
    \/ GetOrgIntegrations
    \/ GetOrgIntegrationsFails
    \/ FindNoCloudApp
    \/ FetchCloudTargets
    \/ FetchCloudTargetsFails
    \/ FetchGithubTargets
    \/ FetchGithubTargetsFails
    \/ ClassifyTarget
    \/ FindReturn
    \/ LeaveOrgLoop
    \/ MigrateTarget
    \/ MigrateTargetRaises
    \/ MigrateReturn
    \/ DryRunTargets
    \/ MainExcept
    \/ RunExit

Spec == Init /\ [][Next]_vars

-----------------------------------------------------------------------------
(* Properties of the eligibility filter *)

\* the pass over candidate gh_i raised (the locals are still in sight)
ClassifyRaised == pc = "raised" /\ gh_i <= Len(github_targets)

\* find_migratable_targets is in its loop over the candidates, or has just left it
InFilter == pc = "classify" \/ ClassifyRaised

\* candidates whose pass is over, and candidates the loop has taken up at all
DoneCandidates == {k \in 1..Len(github_targets) : k < gh_i}
TakenCandidates == {k \in 1..Len(github_targets) : k <= gh_i}

IgnoredWith(t, reason) ==
    /\ t.id \in DOMAIN results.ignored
    /\ results.ignored[t.id] = [target |-> t, reason |-> reason]

IsIgnored(t) == t.id \in DOMAIN results.ignored

\* t is in the sequence find_migratable_targets is building
InMigratable(t) == InSeq(t, org_migratable)

NameInIndex(t) ==
    \E k \in 1..Len(organized_cloud_targets) :
        organized_cloud_targets[k].name = t.display_name

UrlInIndex(t) ==
    \E k \in 1..Len(organized_cloud_targets) :
        organized_cloud_targets[k].url = t.url

PassesAllowlist(t) ==
    \/ github_organizations = {}
    \/ parse_github_cloud_organization_from_target(t) \in github_organizations

\* C1: find_migratable_targets completes whatever the index holds and partitions
\* the candidates: each candidate whose pass is over is in the migratable
\* sequence or in the ignored bucket, never in both and never in neither; a
\* private candidate that matches nothing in the index and passes the allowlist
\* is in the migratable sequence.
C1_FilterPartitions ==
    /\ ~ClassifyRaised
    /\ pc = "classify" =>
        \A k \in DoneCandidates :
            LET t == github_targets[k]
            IN  /\ InMigratable(t) # IsIgnored(t)
                /\ (t.is_private /\ ~NameInIndex(t) /\ ~UrlInIndex(t) /\ PassesAllowlist(t))
                        => InMigratable(t)

\* C2: a private candidate whose display name is no key of the index and whose
\* URL is the URL of some entry of the index is ignored as conflicting and is not
\* in the migratable sequence, once the loop has taken it up.
C2_UrlConflictIgnored ==
    InFilter =>
        \A k \in TakenCandidates :
            LET t == github_targets[k]
            IN  (k < gh_i \/ ClassifyRaised) =>
                    ((t.is_private /\ ~NameInIndex(t) /\ UrlInIndex(t))
                        => (IgnoredWith(t, REASON_CONFLICT) /\ ~InMigratable(t)))

\* every target the ledger or a migratable sequence holds
Recorded(bucket) == {results[bucket][id].target : id \in DOMAIN results[bucket]}
SeqTargets(seq) == {seq[k] : k \in 1..Len(seq)}

\* C3: a candidate that is not private is ignored as a public target by its pass
\* of the loop, whatever its name, its URL, the index and the allowlist; its pass
\* never raises, it is never in a migratable sequence, and no later step of the
\* run moves it to another bucket or changes its reason.
C3_PublicIgnored ==
    /\ InFilter =>
        \A k \in TakenCandidates :
            LET t == github_targets[k]
            IN  ~t.is_private =>
                    /\ ~(ClassifyRaised /\ k = gh_i)
                    /\ k < gh_i => IgnoredWith(t, REASON_PUBLIC)
    /\ \A t \in SeqTargets(org_migratable) \cup SeqTargets(migratable_targets) :
            t.is_private
    /\ \A t \in Recorded("migrated") \cup Recorded("failed") : t.is_private
    /\ \A t \in Recorded("ignored") : ~t.is_private => IgnoredWith(t, REASON_PUBLIC)

\* a public candidate has been passed whose name is a key of the index, whose
\* organization is outside a non-empty allowlist, behind a private candidate
C3_Witness ==
    /\ pc = "classify"
    /\ github_organizations # {}
    /\ \E k \in DoneCandidates :
        LET t == github_targets[k]
        IN  /\ ~t.is_private
            /\ NameInIndex(t)
            /\ ~PassesAllowlist(t)
            /\ k > 1
            /\ github_targets[1].is_private

\* the reasons the ledger holds in its ignored bucket
IgnoredReasons == {results.ignored[id].reason : id \in DOMAIN results.ignored}

\* C4: with an empty allowlist nothing is ignored for its organization; with a
\* non-empty one a private candidate that conflicts with nothing in the index is,
\* once its pass is over, ignored as outside the organizations exactly when its
\* parsed organization is not in the allowlist, and is in the migratable
\* sequence exactly when it is.
C4_AllowlistCheck ==
    /\ github_organizations = {} => REASON_NOT_IN_ORGS \notin IgnoredReasons
    /\ (pc = "classify" /\ github_organizations # {}) =>
        \A k \in DoneCandidates :
            LET t == github_targets[k]
                gh_org == parse_github_cloud_organization_from_target(t)
            IN  (t.is_private /\ ~NameInIndex(t) /\ ~UrlInIndex(t)) =>
                    /\ IgnoredWith(t, REASON_NOT_IN_ORGS) <=> gh_org \notin github_organizations
                    /\ InMigratable(t) <=> gh_org \in github_organizations

\* under a non-empty allowlist the loop has passed one private candidate it
\* ignored for its organization and one it let through
C4_Witness ==
    /\ pc = "classify"
    /\ github_organizations # {}
    /\ \E j, k \in DoneCandidates :
        /\ github_targets[j].is_private
        /\ ~NameInIndex(github_targets[j])
        /\ IgnoredWith(github_targets[j], REASON_NOT_IN_ORGS)
        /\ github_targets[k].is_private
        /\ ~UrlInIndex(github_targets[k])
        /\ InMigratable(github_targets[k])

-----------------------------------------------------------------------------
(* Properties of the result ledger *)

Buckets == {"migrated", "failed", "ignored"}

BucketsHolding(id) == {b \in Buckets : id \in DOMAIN results[b]}

RecordedIds == UNION {DOMAIN results[b] : b \in Buckets}

\* C5: at every point of a run each target id is in at most one of the buckets
\* migrated, failed and ignored.
C5_OneOutcomePerId ==
    \A id \in RecordedIds : Cardinality(BucketsHolding(id)) <= 1

\* the PATCH requests issued so far, in order
Patches == SelectSeq(requests_log, LAMBDA r : r.method = "PATCH")

\* C6: a PATCH that fails in the transport does not end migrate_targets: the
\* target is recorded in the failed bucket under its id and the loop goes on.
C6_TransportFailureIsolated ==
    \A k \in 1..Len(Patches) :
        Patches[k].error \in PatchFailures =>
            /\ pc # "raised"
            /\ Patches[k].target \in DOMAIN results.failed

\* the bucket and the reason the claim gives a response status
ClaimedBucket(status) ==
    CASE status = 200 -> "migrated"
      [] status = 409 -> "ignored"
      [] OTHER -> "failed"

ClaimedEntry(t, status) ==
    CASE status = 200 -> [target |-> t, reason |-> REASON_OK]
      [] status = 409 -> [target |-> t, reason |-> REASON_ALREADY]
      [] OTHER -> [target |-> t, reason |-> [status_code |-> status]]

\* the step is a pass of migrate_targets whose PATCH was answered with a status
AnsweredPass ==
    /\ pc = "migrate"
    /\ Len(requests_log') = Len(requests_log) + 1
    /\ requests_log'[Len(requests_log')].method = "PATCH"
    /\ requests_log'[Len(requests_log')].error = ""

\* C7: a pass of migrate_targets whose PATCH is answered writes the target into
\* exactly one bucket, the one its status selects (200 migrated, 409 ignored as
\* already migrated, anything else failed with the response as reason), and
\* leaves the other buckets alone; the PATCHes issued are, in order, one for each
\* target given, all of them once migrate_targets has returned.
C7_ResponseDecidesBucket ==
    /\ [][AnsweredPass =>
            LET t == migratable_targets[mi]
                status == requests_log'[Len(requests_log')].status
                b == ClaimedBucket(status)
            IN  /\ requests_log'[Len(requests_log')].target = t.id
                /\ results'[b] = Put(results[b], t.id, ClaimedEntry(t, status))
                /\ \A other \in Buckets \ {b} : results'[other] = results[other]]_vars
    /\ [](/\ Len(Patches) <= Len(migratable_targets)
          /\ \A k \in 1..Len(Patches) : Patches[k].target = migratable_targets[k].id
          /\ (deploy /\ pc = "main_done") => Len(Patches) = Len(migratable_targets))

\* migrate_targets has returned after two targets, one answered 409 and one
\* answered with another error status, both recorded
C7_Witness ==
    /\ deploy
    /\ pc = "main_done"
    /\ Len(Patches) = 2
    /\ Patches[1].status = 409
    /\ Patches[2].status = 500
    /\ IgnoredWith(migratable_targets[1], REASON_ALREADY)
    /\ Patches[2].target \in DOMAIN results.failed

\* C8: in dry-run mode no PATCH is issued at any point of the run, and once
\* dry_run_targets has run every target given to it is in the migrated bucket
\* with reason dry-run.
C8_DryRunNeverPatches ==
    ~deploy =>
        /\ Patches = << >>
        /\ pc \notin {"migrate"}
        /\ (pc \in {"main_done", "exited"} /\ exc = "none") =>
            \A k \in 1..Len(migratable_targets) :
                LET t == migratable_targets[k]
                IN  /\ t.id \in DOMAIN results.migrated
                    /\ results.migrated[t.id] = [target |-> t, reason |-> REASON_DRY_RUN]

\* a dry run over two organizations has ended with two targets marked
C8_Witness ==
    /\ ~deploy
    /\ pc = "exited"
    /\ exc = "none"
    /\ shown
    /\ Len(migratable_targets) = 2
    /\ migratable_targets[1].org # migratable_targets[2].org
    /\ Cardinality(DOMAIN results.migrated) = 2

-----------------------------------------------------------------------------
(* Properties of the end of a run *)

\* main has returned without an exception
CompletedRun == pc \in {"main_done", "exited"} /\ exc = "none"

\* C11: whenever a run completes without a fatal error, in deploy mode as in
\* dry-run mode, the final summary has been emitted, and no ledger write follows
\* the summary.
C11_SummaryAlwaysEmitted ==
    /\ [](CompletedRun => shown)
    /\ [][shown => results' = results]_vars

\* the run ended in an exception, whatever main's except clause made of it
FatalError == exc # "none"

\* C12: the process ends with a non-zero status whenever the run hit an
\* unrecoverable error, and with status zero only when it hit none.
C12_ExitStatusReportsError ==
    pc = "exited" => (exit_code = 0 <=> ~FatalError)

\* the organization a target was fetched from and classified in
OwnersOf(id) == {t.org : t \in {u \in SeqTargets(migratable_targets) : u.id = id}}

\* C13: every PATCH issued for a target is addressed to the organization from
\* which that target was fetched and classified.
C13_PatchAddressedToOwner ==
    \A k \in 1..Len(Patches) : OwnersOf(Patches[k].target) = {Patches[k].org}

\* positions of the requests log
Logged(r) == \E k \in 1..Len(requests_log) : requests_log[k] = r
PatchPositions == {k \in 1..Len(requests_log) : requests_log[k].method = "PATCH"}
GetPositions == {k \in 1..Len(requests_log) : requests_log[k].method = "GET"}

\* the run raised before the loop over the selected organizations was over:
\* while organizations were listed or selected, or inside a pass of the loop
AbortedInReads ==
    FatalError /\ (migratable_orgs = << >> \/ org_i <= Len(migratable_orgs))

\* C14: no PATCH is issued until the integrations fetch and the classification
\* are over for every selected organization, and a run that aborts on the read
\* path (missing github-cloud-app integration, failed GET) has issued no PATCH,
\* even when organizations before the failing one were already classified.
C14_ReadsBeforeWrites ==
    /\ Patches # << >> =>
            /\ org_i > Len(migratable_orgs)
            /\ \A k \in 1..Len(migratable_orgs) :
                    /\ Logged(Get("integrations", migratable_orgs[k].id, ""))
                    /\ Logged(Get("targets", migratable_orgs[k].id, CLOUD_APP))
            /\ \A g \in GetPositions : \A q \in PatchPositions : g < q
    /\ AbortedInReads => Patches = << >>

\* a deploy run over two organizations classified a target of the first one and
\* then aborted in the second one; it ended without a PATCH
C14_Witness ==
    /\ deploy
    /\ pc = "exited"
    /\ Len(migratable_orgs) = 2
    /\ org_i = 2
    /\ AbortedInReads
    /\ migratable_targets # << >>
    /\ Patches = << >>

====
